---- MODULE Spec2Model ----
(***************************************************************************)
(* Sleep Insights Explorer (src/src/App.tsx): the normalisation and        *)
(* aggregation pipeline of the App component.                              *)
(*                                                                         *)
(* Numbers.  A JavaScript number is modelled as an exact rational <<n, d>> *)
(* in lowest terms with d > 0; NaN is <<0, 0>> and +-Infinity is           *)
(* <<+-1, 0>>.  IEEE-754 rounding is not modelled.  null is <<>>.          *)
(* Dates.  A Date is its timestamp, counted in seconds of local time from  *)
(* 2024-01-01T00:00; an invalid Date has the timestamp NaN.  Daylight      *)
(* saving shifts and time zones are not modelled.                          *)
(***************************************************************************)
EXTENDS Integers, Sequences, FiniteSets, TLC

\* ------------------------------------------------------------------ bounds
\* Longest input sequence of the rolling loop.
MaxLen == 3
\* Most rows of a sleep table, most files of an archive.
MaxRows == 2
MaxFiles == 3

\* ----------------------------------------------------------------- numbers
null == <<>>
NaN == <<0, 0>>

Abs(x) == IF x < 0 THEN -x ELSE x

RECURSIVE Gcd(_, _)
Gcd(a, b) == IF b = 0 THEN a ELSE Gcd(b, a % b)

Sign(x) == IF x < 0 THEN -1 ELSE IF x > 0 THEN 1 ELSE 0

\* The number n / d in lowest terms (d = 0: NaN or an infinity).
Norm(n, d) ==
  IF d = 0 THEN <<Sign(n), 0>>
  ELSE LET g == Gcd(Abs(n), Abs(d))
       IN  IF d < 0 THEN <<(-n) \div g, (-d) \div g>> ELSE <<n \div g, d \div g>>

Num(n) == <<n, 1>>
isNaN(x) == x = NaN
isFinite(x) == x[2] # 0
\* JavaScript truthiness of a number: neither 0 nor NaN.
Truthy(x) == x[1] # 0

NumAdd(x, y) ==
  IF isNaN(x) \/ isNaN(y) THEN NaN
  ELSE IF ~isFinite(x) THEN (IF ~isFinite(y) /\ y # x THEN NaN ELSE x)
  ELSE IF ~isFinite(y) THEN y
  ELSE Norm(x[1] * y[2] + y[1] * x[2], x[2] * y[2])

NumNeg(x) == <<-x[1], x[2]>>
NumSub(x, y) == NumAdd(x, NumNeg(y))

NumMul(x, y) ==
  IF isNaN(x) \/ isNaN(y) THEN NaN
  ELSE IF ~isFinite(x) \/ ~isFinite(y) THEN <<Sign(x[1]) * Sign(y[1]), 0>>
  ELSE Norm(x[1] * y[1], x[2] * y[2])

NumDiv(x, y) ==
  IF isNaN(x) \/ isNaN(y) THEN NaN
  ELSE IF ~isFinite(y) THEN (IF isFinite(x) THEN Num(0) ELSE NaN)
  ELSE IF ~isFinite(x) THEN (IF y[1] < 0 THEN NumNeg(x) ELSE x)
  ELSE IF y[1] = 0 THEN <<Sign(x[1]), 0>>
  ELSE Norm(x[1] * y[2], x[2] * y[1])

\* x < y and x <= y on numbers; every comparison with NaN is false.
NumLt(x, y) ==
  /\ ~isNaN(x) /\ ~isNaN(y)
  /\ IF isFinite(x) /\ isFinite(y) THEN x[1] * y[2] < y[1] * x[2]
     ELSE IF isFinite(x) THEN y[1] > 0
     ELSE IF isFinite(y) THEN x[1] < 0
     ELSE x[1] < y[1]
NumLe(x, y) == ~isNaN(x) /\ ~isNaN(y) /\ (x = y \/ NumLt(x, y))

\* ----------------------------------------------------------------- rolling
VARIABLES arr, k, getter, i, sum, q, out

rollVars == <<arr, k, getter, i, sum, q, out>>

\* The loop body without `sum -= q.shift()`: the queue is shortened but the
\* sum keeps the value that left the window.
RollingBodyKeepsSum(st, v, w) ==
  LET q1 == Append(st.q, v)
      q2 == IF Len(q1) > w THEN Tail(q1) ELSE q1
  IN  [i |-> st.i + 1,
       sum |-> NumAdd(st.sum, v),
       q |-> q2,
       out |-> IF Len(q2) = w
               THEN [st.out EXCEPT ![st.i + 1] = NumDiv(NumAdd(st.sum, v), Num(w))]
               ELSE st.out]

\* The loop body without the shift: the oldest value is subtracted from the
\* sum but stays in the queue.
RollingBodyKeepsOldest(st, v, w) ==
  LET sum1 == NumAdd(st.sum, v)
      q1 == Append(st.q, v)
      sum2 == IF Len(q1) > w THEN NumSub(sum1, Head(q1)) ELSE sum1
  IN  [i |-> st.i + 1,
       sum |-> sum2,
       q |-> q1,
       out |-> IF Len(q1) = w
               THEN [st.out EXCEPT ![st.i + 1] = NumDiv(sum2, Num(w))]
               ELSE st.out]

\* One iteration of the loop body of rolling, on the loop state
\* st = [i, sum, q, out] (i counts the elements consumed so far), for the
\* accessor value v and the window width w.
RollingBody(st, v, w) ==
  LET sum1 == NumAdd(st.sum, v)
      q1 == Append(st.q, v)
      over == Len(q1) > w
      sum2 == IF over THEN NumSub(sum1, Head(q1)) ELSE sum1
      q2 == IF over THEN Tail(q1) ELSE q1
      idx == st.i + 1
  IN  [i |-> idx,
       sum |-> sum2,
       q |-> q2,
       out |-> IF Len(q2) = w THEN [st.out EXCEPT ![idx] = NumDiv(sum2, Num(w))]
               ELSE st.out]

RollingInit(xs) ==
  [i |-> 0, sum |-> Num(0), q |-> <<>>, out |-> [n \in 1..Len(xs) |-> null]]

RECURSIVE RollingLoop(_, _, _, _)
RollingLoop(st, xs, w, key) ==
  IF st.i < Len(xs)
  THEN RollingLoop(RollingBody(st, xs[st.i + 1][key], w), xs, w, key)
  ELSE st

\* rolling(arr, k, getter): the accessor is the field name key.
rolling(xs, w, key) == RollingLoop(RollingInit(xs), xs, w, key).out

\* ----------------------------------------------------------------- strings
\* A string is the sequence of its characters; undefined (a column the
\* table does not have) is a marker no string equals.
undefined == <<"undefined">>

Digits == {"0", "1", "2", "3", "4", "5", "6", "7", "8", "9"}
DigitVal(c) ==
  CASE c = "0" -> 0 [] c = "1" -> 1 [] c = "2" -> 2 [] c = "3" -> 3 [] c = "4" -> 4
    [] c = "5" -> 5 [] c = "6" -> 6 [] c = "7" -> 7 [] c = "8" -> 8 [] c = "9" -> 9

\* String(v ?? ""): the text of a cell, "" when the cell is undefined.
StringOrEmpty(v) == IF v = undefined THEN <<>> ELSE v

\* s.replace(",", "."): only the first comma is replaced.
RECURSIVE ReplaceFirstComma(_)
ReplaceFirstComma(s) ==
  IF s = <<>> THEN <<>>
  ELSE IF Head(s) = "," THEN <<".">> \o Tail(s)
  ELSE <<Head(s)>> \o ReplaceFirstComma(Tail(s))

RECURSIVE SkipSpaces(_)
SkipSpaces(s) == IF s # <<>> /\ Head(s) = " " THEN SkipSpaces(Tail(s)) ELSE s

\* The number of digits of s from position p on.
RECURSIVE DigitRun(_, _)
DigitRun(s, p) ==
  IF p <= Len(s) /\ s[p] \in Digits THEN 1 + DigitRun(s, p + 1) ELSE 0

RECURSIVE DigitsVal(_)
DigitsVal(s) ==
  IF s = <<>> THEN 0 ELSE 10 * DigitsVal(SubSeq(s, 1, Len(s) - 1)) + DigitVal(s[Len(s)])

RECURSIVE Pow10(_)
Pow10(n) == IF n = 0 THEN 1 ELSE 10 * Pow10(n - 1)

IsPrefix(p, s) == Len(p) <= Len(s) /\ SubSeq(s, 1, Len(p)) = p

\* The value of the exponent digits of u from position p on, negated if neg.
ExponentFrom(u, p, neg) ==
  (IF neg THEN -1 ELSE 1) * DigitsVal(SubSeq(u, p, p + DigitRun(u, p) - 1))

\* The exponent part of a literal whose mantissa ends before position e (an
\* e without digits is not part of the literal, which leaves the value as
\* it is, like the exponent 0).
ExponentAt(u, e) ==
  IF Len(u) >= e /\ u[e] \in {"e", "E"}
  THEN IF Len(u) > e /\ u[e + 1] \in {"-", "+"}
       THEN ExponentFrom(u, e + 2, u[e + 1] = "-")
       ELSE ExponentFrom(u, e + 1, FALSE)
  ELSE 0

\* m / 10^nf * 10^ex
Scaled(m, nf, ex) ==
  IF ex >= 0 THEN Norm(m * Pow10(ex), Pow10(nf)) ELSE Norm(m, Pow10(nf - ex))

\* The number of fraction digits of u behind its ni integer digits.
FractionRun(u, ni) ==
  IF Len(u) > ni /\ u[ni + 1] = "." THEN DigitRun(u, ni + 2) ELSE 0

\* The literal of u with ni integer digits and nf fraction digits.
DecimalLiteral(sgn, u, ni, nf) ==
  IF ni + nf = 0 THEN NaN
  ELSE Scaled(sgn * DigitsVal(SubSeq(u, 1, ni) \o SubSeq(u, ni + 2, ni + 1 + nf)),
              nf,
              ExponentAt(u, IF Len(u) > ni /\ u[ni + 1] = "." THEN ni + nf + 2
                            ELSE ni + 1))

DecimalAfterInt(sgn, u, ni) == DecimalLiteral(sgn, u, ni, FractionRun(u, ni))

Unsigned(sgn, u) ==
  IF IsPrefix(<<"I", "n", "f", "i", "n", "i", "t", "y">>, u) THEN <<sgn, 0>>
  ELSE DecimalAfterInt(sgn, u, DigitRun(u, 1))

Signed(t) ==
  IF t # <<>> /\ Head(t) \in {"-", "+"}
  THEN Unsigned(IF Head(t) = "-" THEN -1 ELSE 1, Tail(t))
  ELSE Unsigned(1, t)

\* parseFloat(s): leading blanks, a sign, then the longest decimal literal
\* (digits, a fraction, an exponent) or Infinity; NaN when there is none.
parseFloat(s) == Signed(SkipSpaces(s))

FiniteOrZero(n) == IF isFinite(n) THEN n ELSE Num(0)

parseFloatSafe(v) == FiniteOrZero(parseFloat(ReplaceFirstComma(StringOrEmpty(v))))

\* ------------------------------------------------------------------- dates
\* Seconds in a day: setDate moves a Date by whole days.
SecondsPerDay == 86400

addDays(d, n) == NumAdd(d, Num(n * SecondsPerDay))

\* The calendar day (number) a timestamp falls on.
DayOf(d) == d[1] \div SecondsPerDay

\* The Gregorian calendar, day 0 being 2024-01-01.
IsLeap(y) == (y % 4 = 0 /\ y % 100 # 0) \/ y % 400 = 0
DaysInMonth(y, m) ==
  IF m = 2 THEN (IF IsLeap(y) THEN 29 ELSE 28)
  ELSE IF m \in {4, 6, 9, 11} THEN 30 ELSE 31

\* <<year, month, day of month>> of the day that lies `day` days after the
\* first of month m of year y.
RECURSIVE YearMonthDay(_, _, _)
YearMonthDay(day, y, m) ==
  IF day < 0
  THEN LET py == IF m = 1 THEN y - 1 ELSE y
           pm == IF m = 1 THEN 12 ELSE m - 1
       IN  YearMonthDay(day + DaysInMonth(py, pm), py, pm)
  ELSE IF day >= DaysInMonth(y, m)
  THEN YearMonthDay(day - DaysInMonth(y, m), IF m = 12 THEN y + 1 ELSE y,
                    IF m = 12 THEN 1 ELSE m + 1)
  ELSE <<y, m, day + 1>>

\* The day number of the first of month m of year y.
RECURSIVE DaysToMonth(_, _)
DaysToMonth(y, m) ==
  IF y = 2024 /\ m = 1 THEN 0
  ELSE IF y >= 2024
  THEN LET py == IF m = 1 THEN y - 1 ELSE y
           pm == IF m = 1 THEN 12 ELSE m - 1
       IN  DaysToMonth(py, pm) + DaysInMonth(py, pm)
  ELSE DaysToMonth(IF m = 12 THEN y + 1 ELSE y, IF m = 12 THEN 1 ELSE m + 1)
         - DaysInMonth(y, m)

AllDigits(s, lo, hi) == \A p \in lo..hi : s[p] \in Digits

\* new Date(dateStr).getTime() for the texts "YYYY-MM-DD",
\* "YYYY-MM-DD HH:MM" and "YYYY-MM-DD HH:MM:SS" (the separator a blank or
\* a T); NaN, the time of an invalid Date, for any other text.
DateOf(s) ==
  LET n == Len(s)
      dateOk ==
        /\ n >= 10
        /\ AllDigits(s, 1, 4) /\ s[5] = "-" /\ AllDigits(s, 6, 7)
        /\ s[8] = "-" /\ AllDigits(s, 9, 10)
      y == DigitsVal(SubSeq(s, 1, 4))
      m == DigitsVal(SubSeq(s, 6, 7))
      d == DigitsVal(SubSeq(s, 9, 10))
      timeOk ==
        \/ n = 10
        \/ /\ n \in {16, 19}
           /\ s[11] \in {" ", "T"}
           /\ AllDigits(s, 12, 13) /\ s[14] = ":" /\ AllDigits(s, 15, 16)
           /\ n = 19 => s[17] = ":" /\ AllDigits(s, 18, 19)
      hh == IF n >= 16 THEN DigitsVal(SubSeq(s, 12, 13)) ELSE 0
      mi == IF n >= 16 THEN DigitsVal(SubSeq(s, 15, 16)) ELSE 0
      ss == IF n >= 19 THEN DigitsVal(SubSeq(s, 18, 19)) ELSE 0
  IN  IF /\ dateOk /\ timeOk
         /\ m \in 1..12 /\ d \in 1..DaysInMonth(y, m)
         /\ hh < 24 /\ mi < 60 /\ ss < 60
      THEN Num((DaysToMonth(y, m) + d - 1) * SecondsPerDay
               + hh * 3600 + mi * 60 + ss)
      ELSE NaN

DigitChar(n) == CHOOSE c \in Digits : DigitVal(c) = n

\* String(n) for a natural number n.
RECURSIVE NatToString(_)
NatToString(n) ==
  IF n < 10 THEN <<DigitChar(n)>> ELSE NatToString(n \div 10) \o <<DigitChar(n % 10)>>

\* s.padStart(2, "0")
padStart2(s) == IF Len(s) < 2 THEN <<"0">> \o s ELSE s

\* d.toISOString().slice(0, 10)
isoDate(d) ==
  LET ymd == YearMonthDay(DayOf(d), 2024, 1)
  IN  NatToString(ymd[1]) \o <<"-">> \o padStart2(NatToString(ymd[2]))
        \o <<"-">> \o padStart2(NatToString(ymd[3]))

\* formatYM(d): `${d.getFullYear()}-${String(d.getMonth() + 1).padStart(2, "0")}`
formatYM(d) ==
  LET ym == YearMonthDay(DayOf(d), 2024, 1)
  IN  NatToString(ym[1]) \o <<"-">> \o padStart2(NatToString(ym[2]))

\* The UTF-16 code unit of a character of a month key.
CharCode(c) == IF c = "-" THEN 45 ELSE 48 + DigitVal(c)

\* a < b on strings: the order of the code units.
RECURSIVE StrLt(_, _)
StrLt(a, b) ==
  IF b = <<>> THEN FALSE
  ELSE IF a = <<>> THEN TRUE
  ELSE IF Head(a) = Head(b) THEN StrLt(Tail(a), Tail(b))
  ELSE CharCode(Head(a)) < CharCode(Head(b))

\* --------------------------------------------------------------- normalizer
DateHeaders == {"Date/Time", "Date", "date"}
NumHeaders ==
  {"Total Sleep (hr)", "Asleep (hr)", "TotalSleep", "Core (hr)", "Core",
   "Deep (hr)", "Deep", "REM (hr)", "REM", "Awake (hr)", "Awake"}

\* JavaScript truthiness of a cell: a string that is not empty.
TruthyStr(c) == c # undefined /\ c # <<>>

\* a || b || c on cells: the first truthy one, else the last.
FirstTruthy(a, b, c) == IF TruthyStr(a) THEN a ELSE IF TruthyStr(b) THEN b ELSE c

\* a ?? b on cells: a unless it is undefined.
Nullish(a, b) == IF a = undefined THEN b ELSE a

normalizeRowAt(row, dateStr, date) ==
      IF ~TruthyStr(dateStr) THEN <<>>
      ELSE IF isNaN(date) THEN <<>>
      ELSE <<[date |-> date,
              totalSleep |-> parseFloatSafe(
                Nullish(row["Total Sleep (hr)"],
                        Nullish(row["Asleep (hr)"], row["TotalSleep"]))),
              core |-> parseFloatSafe(Nullish(row["Core (hr)"], row["Core"])),
              deep |-> parseFloatSafe(Nullish(row["Deep (hr)"], row["Deep"])),
              rem |-> parseFloatSafe(Nullish(row["REM (hr)"], row["REM"])),
              awake |-> parseFloatSafe(Nullish(row["Awake (hr)"], row["Awake"]))]>>

normalizeRowDated(row, dateStr) == normalizeRowAt(row, dateStr, DateOf(dateStr))

\* normalizeRow(row): <<>> for null, else the one SleepRow.
normalizeRow(row) ==
  normalizeRowDated(row, FirstTruthy(row["Date/Time"], row["Date"], row["date"]))

\* parsed.forEach((r) => { const n = normalizeRow(r); if (n) rows.push(n); })
RECURSIVE PushNormalized(_, _)
PushNormalized(rows, parsed) ==
  IF parsed = <<>> THEN rows
  ELSE PushNormalized(rows \o normalizeRow(Head(parsed)), Tail(parsed))

\* A sort that is not stable: an element goes in front of its equals.
RECURSIVE InsertByDateUnstable(_, _)
InsertByDateUnstable(sorted, r) ==
  IF sorted = <<>> THEN <<r>>
  ELSE IF NumLt(sorted[Len(sorted)].date, r.date) THEN Append(sorted, r)
  ELSE Append(InsertByDateUnstable(SubSeq(sorted, 1, Len(sorted) - 1), r),
              sorted[Len(sorted)])

\* rows.sort((a, b) => a.date.getTime() - b.date.getTime()): Array.prototype
\* .sort is stable, so an element goes behind every element that does not
\* compare greater than it.
RECURSIVE InsertByDate(_, _)
InsertByDate(sorted, r) ==
  IF sorted = <<>> THEN <<r>>
  ELSE LET last == sorted[Len(sorted)]
       IN  IF NumLe(NumSub(last.date, r.date), Num(0)) THEN Append(sorted, r)
           ELSE Append(InsertByDate(SubSeq(sorted, 1, Len(sorted) - 1), r), last)

RECURSIVE SortByDateFrom(_, _)
SortByDateFrom(sorted, rest) ==
  IF rest = <<>> THEN sorted
  ELSE SortByDateFrom(InsertByDate(sorted, Head(rest)), Tail(rest))

SortByDate(rows) == SortByDateFrom(<<>>, rows)

\* parseCsv, after file.text() and Papa.parse have produced `parsed`.
parseCsv(parsed) == SortByDate(PushNormalized(<<>>, parsed))

\* name.toLowerCase().endsWith(ext): a file name is modelled by its
\* extension, lower-cased by ToLowerExt.
ToLowerExt(ext) ==
  CASE ext = "CSV" -> "csv" [] ext = "Csv" -> "csv" [] ext = "ZIP" -> "zip"
    [] OTHER -> ext
EndsWithCsv(name) == ToLowerExt(name.ext) = "csv"
EndsWithZip(name) == ToLowerExt(name.ext) = "zip"

\* parseZip, after JSZip.loadAsync: files is the archive's entries in the
\* order of Object.keys(zip.files), each with its name and parsed table.
RECURSIVE ZipRows(_, _)
ZipRows(rows, files) ==
  IF files = <<>> THEN rows
  ELSE IF EndsWithCsv(Head(files).name)
  THEN ZipRows(PushNormalized(rows, Head(files).parsed), Tail(files))
  ELSE ZipRows(rows, Tail(files))

parseZip(files) == SortByDate(ZipRows(<<>>, files))

\* ------------------------------------------------------------ filter, derive
\* (x / totalSleep) * 100, or 0 when totalSleep is 0 (or NaN).
Pct(x, totalSleep) ==
  IF Truthy(totalSleep) THEN NumMul(NumDiv(x, totalSleep), Num(100)) ELSE Num(0)

\* A Date or null in a condition: null is the only falsy one.
IsSet(d) == d # null

\* The filter with `r.date < dateTo` for the upper bound: the day of dateTo
\* is left out.
FilteredBeforeTo(rows, from, to, minH, maxH) ==
  LET afterFrom(r) == NumLe(from, r.date)
      rows1 == IF IsSet(from) THEN SelectSeq(rows, afterFrom) ELSE rows
      beforeTo(r) == NumLt(r.date, to)
      rows2 == IF IsSet(to) THEN SelectSeq(rows1, beforeTo) ELSE rows1
      inHours(r) == NumLe(minH, r.totalSleep) /\ NumLe(r.totalSleep, maxH)
  IN  SelectSeq(rows2, inHours)

\* The filtered memo: lower date bound, upper date bound, sleep duration.
Filtered(rows, from, to, minH, maxH) ==
  LET afterFrom(r) == NumLe(from, r.date)
      rows1 == IF IsSet(from) THEN SelectSeq(rows, afterFrom) ELSE rows
      beforeTo(r) == NumLt(r.date, addDays(to, 1))
      rows2 == IF IsSet(to) THEN SelectSeq(rows1, beforeTo) ELSE rows1
      inHours(r) == NumLe(minH, r.totalSleep) /\ NumLe(r.totalSleep, maxH)
  IN  SelectSeq(rows2, inHours)

WithPct(r) ==
  [date |-> r.date, totalSleep |-> r.totalSleep, core |-> r.core,
   deep |-> r.deep, rem |-> r.rem, awake |-> r.awake,
   remPct |-> Pct(r.rem, r.totalSleep),
   deepPct |-> Pct(r.deep, r.totalSleep),
   corePct |-> Pct(r.core, r.totalSleep)]

\* rows.map(WithPct)
RECURSIVE MapWithPct(_)
MapWithPct(rows) ==
  IF rows = <<>> THEN <<>> ELSE <<WithPct(Head(rows))>> \o MapWithPct(Tail(rows))

\* Rolling averages over sleepRows instead of over filtered.
rollingSourceAll(all, filt) == all

\* The rows the rolling averages of the enriched memo run over.
rollingSource(all, filt) == filt

\* arr.map((r, i) => ({...r, dateStr, remRoll: remRoll[i], ...})), from
\* index n on.
RECURSIVE WithRolling(_, _, _, _, _, _)
WithRolling(arr0, n, remRoll, deepRoll, totalRoll, awakeRoll) ==
  IF n > Len(arr0) THEN <<>>
  ELSE <<[date |-> arr0[n].date, totalSleep |-> arr0[n].totalSleep,
          core |-> arr0[n].core, deep |-> arr0[n].deep, rem |-> arr0[n].rem,
          awake |-> arr0[n].awake, remPct |-> arr0[n].remPct,
          deepPct |-> arr0[n].deepPct, corePct |-> arr0[n].corePct,
          dateStr |-> isoDate(arr0[n].date),
          remRoll |-> remRoll[n], deepRoll |-> deepRoll[n],
          totalRoll |-> totalRoll[n], awakeRoll |-> awakeRoll[n]]>>
       \o WithRolling(arr0, n + 1, remRoll, deepRoll, totalRoll, awakeRoll)

\* The rolling series of src, joined to arr0.
EnrichedFrom(arr0, src, w) ==
  WithRolling(arr0, 1, rolling(src, w, "remPct"), rolling(src, w, "deepPct"),
              rolling(src, w, "totalSleep"), rolling(src, w, "awake"))

\* The enriched memo.
Enriched(all, filt, w) ==
  EnrichedFrom(MapWithPct(filt), MapWithPct(rollingSource(all, filt)), w)

\* ------------------------------------------------------------------ monthly
\* arr.reduce((s, r) => s + r[key], 0)
RECURSIVE reduceSum(_, _)
reduceSum(xs, key) ==
  IF xs = <<>> THEN Num(0)
  ELSE NumAdd(reduceSum(SubSeq(xs, 1, Len(xs) - 1), key), xs[Len(xs)][key])

\* The Map of monthGroups after rows.forEach: the groups in the order their
\* keys were first met.
\* if (!map.has(key)) map.set(key, []); map.get(key).push(r)
GroupAdd(groups, key, r) ==
  IF \E n \in 1..Len(groups) : groups[n].key = key
  THEN [groups EXCEPT ![CHOOSE n \in 1..Len(groups) : groups[n].key = key].rows =
                        Append(@, r)]
  ELSE Append(groups, [key |-> key, rows |-> <<r>>])

RECURSIVE GroupInto(_, _)
GroupInto(groups, rows) ==
  IF rows = <<>> THEN groups
  ELSE GroupInto(GroupAdd(groups, formatYM(Head(rows).date), Head(rows)), Tail(rows))

\* .sort((a, b) => (a[0] < b[0] ? -1 : 1))
RECURSIVE InsertByKey(_, _)
InsertByKey(sorted, g) ==
  IF sorted = <<>> THEN <<g>>
  ELSE LET last == sorted[Len(sorted)]
       IN  IF StrLt(last.key, g.key) THEN Append(sorted, g)
           ELSE Append(InsertByKey(SubSeq(sorted, 1, Len(sorted) - 1), g), last)

RECURSIVE SortByKeyFrom(_, _)
SortByKeyFrom(sorted, rest) ==
  IF rest = <<>> THEN sorted
  ELSE SortByKeyFrom(InsertByKey(sorted, Head(rest)), Tail(rest))

monthGroups(rows) == SortByKeyFrom(<<>>, GroupInto(<<>>, rows))

\* No guard against nights without sleep.
validRowsAll(rows) == rows

\* The rows with totalSleep > 0 of a month.
validRows(rows) == LET positive(r) == NumLt(Num(0), r.totalSleep) IN SelectSeq(rows, positive)

\* valid.reduce((s, r) => s + (r[key] / r.totalSleep) * 100, 0)
RECURSIVE reducePct(_, _)
reducePct(xs, key) ==
  IF xs = <<>> THEN Num(0)
  ELSE NumAdd(reducePct(SubSeq(xs, 1, Len(xs) - 1), key),
              NumMul(NumDiv(xs[Len(xs)][key], xs[Len(xs)].totalSleep), Num(100)))

\* validRows.length > 0 ? valid.reduce(...) / validRows.length : 0
validMean(valid, key) ==
  IF Len(valid) > 0 THEN NumDiv(reducePct(valid, key), Num(Len(valid))) ELSE Num(0)

MonthSummaryOf(g, valid) ==
  [month |-> g.key,
   remPct |-> validMean(valid, "rem"),
   deepPct |-> validMean(valid, "deep"),
   total |-> NumDiv(reduceSum(g.rows, "totalSleep"), Num(Len(g.rows))),
   awake |-> NumDiv(reduceSum(g.rows, "awake"), Num(Len(g.rows))),
   n |-> Num(Len(g.rows))]

\* One MonthlyData entry of a group [key, rows].
MonthSummary(g) == MonthSummaryOf(g, validRows(g.rows))

Columns == {"month", "remPct", "deepPct", "total", "awake", "n"}

\* The comparator of the monthly sort: -1, 0 or 1.
MonthlyCompare(a, b, col, dir) ==
  LET lt == IF col = "month" THEN StrLt(a.month, b.month) ELSE NumLt(a[col], b[col])
      gt == IF col = "month" THEN StrLt(b.month, a.month) ELSE NumLt(b[col], a[col])
  IN  IF lt THEN (IF dir = "asc" THEN -1 ELSE 1)
      ELSE IF gt THEN (IF dir = "asc" THEN 1 ELSE -1)
      ELSE 0

\* A sort that is not stable: an element goes in front of its equals.
RECURSIVE InsertMonthlyUnstable(_, _, _, _)
InsertMonthlyUnstable(sorted, x, col, dir) ==
  IF sorted = <<>> THEN <<x>>
  ELSE IF MonthlyCompare(sorted[Len(sorted)], x, col, dir) < 0 THEN Append(sorted, x)
  ELSE Append(InsertMonthlyUnstable(SubSeq(sorted, 1, Len(sorted) - 1), x, col, dir),
              sorted[Len(sorted)])

RECURSIVE InsertMonthly(_, _, _, _)
InsertMonthly(sorted, x, col, dir) ==
  IF sorted = <<>> THEN <<x>>
  ELSE LET last == sorted[Len(sorted)]
       IN  IF MonthlyCompare(last, x, col, dir) <= 0 THEN Append(sorted, x)
           ELSE Append(InsertMonthly(SubSeq(sorted, 1, Len(sorted) - 1), x, col, dir),
                       last)

RECURSIVE SortMonthlyFrom(_, _, _, _)
SortMonthlyFrom(sorted, rest, col, dir) ==
  IF rest = <<>> THEN sorted
  ELSE SortMonthlyFrom(InsertMonthly(sorted, Head(rest), col, dir), Tail(rest),
                       col, dir)

\* The monthly summary over the filtered rows.
monthlySourceFiltered(all, filt) == filt

\* The rows the monthly summary is computed over: "Use all sleep data for
\* monthly summary, not filtered data".
monthlySource(all, filt) == all

\* groups.map(MonthSummary)
RECURSIVE MonthSummaries(_)
MonthSummaries(groups) ==
  IF groups = <<>> THEN <<>>
  ELSE <<MonthSummary(Head(groups))>> \o MonthSummaries(Tail(groups))

\* The monthlyData memo.
MonthlyData(all, filt, col, dir) ==
  SortMonthlyFrom(<<>>, MonthSummaries(monthGroups(monthlySource(all, filt))), col, dir)

\* -------------------------------------------------------------- event deltas
\* The width in days of the windows before and after an event.
WindowDays == 30

\* A mean that is 0, not NaN, for no rows.
avgZeroIfEmpty(xs, key) ==
  IF Len(xs) > 0 THEN NumDiv(reduceSum(xs, key), Num(Len(xs))) ELSE Num(0)

\* avg(arr, key)
avg(xs, key) ==
  IF Len(xs) > 0 THEN NumDiv(reduceSum(xs, key), Num(Len(xs))) ELSE NaN

\* range(arr, from, to)
range(xs, from, to) ==
  LET within(r) == NumLe(from, r.date) /\ NumLe(r.date, to) IN SelectSeq(xs, within)

preWindow(data, m) == range(data, addDays(m.date, -WindowDays), addDays(m.date, -1))
postWindow(data, m) == range(data, addDays(m.date, 1), addDays(m.date, WindowDays))

MetricsOf(xs, withPct) ==
  [rem |-> avg(withPct, "remPct"), deep |-> avg(withPct, "deepPct"),
   total |-> avg(xs, "totalSleep"), awake |-> avg(xs, "awake")]

\* The four means of a window.
Metrics(xs) == MetricsOf(xs, MapWithPct(xs))

DeltaOf(m, before, after) ==
  [m |-> m, before |-> before, after |-> after,
   delta |-> [rem |-> NumSub(after.rem, before.rem),
              deep |-> NumSub(after.deep, before.deep),
              total |-> NumSub(after.total, before.total),
              awake |-> NumSub(after.awake, before.awake)]]

\* One row of the table: the event, the means before and after, the deltas.
DeltaRow(data, m) ==
  DeltaOf(m, Metrics(preWindow(data, m)), Metrics(postWindow(data, m)))

\* .sort((a, b) => b.m.date.getTime() - a.m.date.getTime())
RECURSIVE InsertNewestFirst(_, _)
InsertNewestFirst(sorted, x) ==
  IF sorted = <<>> THEN <<x>>
  ELSE LET last == sorted[Len(sorted)]
       IN  IF NumLe(NumSub(x.m.date, last.m.date), Num(0)) THEN Append(sorted, x)
           ELSE Append(InsertNewestFirst(SubSeq(sorted, 1, Len(sorted) - 1), x), last)

RECURSIVE SortNewestFirstFrom(_, _)
SortNewestFirstFrom(sorted, rest) ==
  IF rest = <<>> THEN sorted
  ELSE SortNewestFirstFrom(InsertNewestFirst(sorted, Head(rest)), Tail(rest))

\* meds.map((m) => ...)
RECURSIVE DeltaRows(_, _)
DeltaRows(events, data) ==
  IF events = <<>> THEN <<>>
  ELSE <<DeltaRow(data, Head(events))>> \o DeltaRows(Tail(events), data)

\* The rows of MedDeltaTable.
MedDeltaTable(events, data) == SortNewestFirstFrom(<<>>, DeltaRows(events, data))

\* ------------------------------------------------------------- medications
\* s.trim(): blanks are the only white space of the texts modelled.
RECURSIVE TrimEnd(_)
TrimEnd(s) ==
  IF s # <<>> /\ s[Len(s)] = " " THEN TrimEnd(SubSeq(s, 1, Len(s) - 1)) ELSE s
Trim(s) == TrimEnd(SkipSpaces(s))

LowerCase ==
  <<"a", "b", "c", "d", "e", "f", "g", "h", "i", "j", "k", "l", "m",
    "n", "o", "p", "q", "r", "s", "t", "u", "v", "w", "x", "y", "z">>
UpperCase ==
  <<"A", "B", "C", "D", "E", "F", "G", "H", "I", "J", "K", "L", "M",
    "N", "O", "P", "Q", "R", "S", "T", "U", "V", "W", "X", "Y", "Z">>

\* s.toUpperCase()
toUpperCase(s) ==
  [n \in 1..Len(s) |->
    IF \E j \in 1..26 : LowerCase[j] = s[n]
    THEN UpperCase[CHOOSE j \in 1..26 : LowerCase[j] = s[n]]
    ELSE s[n]]

\* The digits of the fraction r / d, 0 <= r < d, d a divisor of a power of 10.
RECURSIVE FracDigits(_, _)
FracDigits(r, d) ==
  IF r = 0 THEN <<>>
  ELSE <<DigitChar((r * 10) \div d)>> \o FracDigits((r * 10) % d, d)

\* `${x}` for a finite number x >= 0 with a finite decimal expansion.
NumberToString(x) ==
  NatToString(x[1] \div x[2])
    \o (IF x[1] % x[2] = 0 THEN <<>> ELSE <<".">> \o FracDigits(x[1] % x[2], x[2]))

\* The place of the last " - " at or after p; 0 when there is none.
IndexOfSepLast(s, p) ==
  LET places == {o \in p..(Len(s) - 2) : SubSeq(s, o, o + 2) = <<" ", "-", " ">>}
  IN  IF places = {} THEN 0 ELSE CHOOSE o \in places : \A x \in places : x <= o

\* line.indexOf(" - "), 1-based; 0 when the separator does not occur.
RECURSIVE IndexOfSep(_, _)
IndexOfSep(s, p) ==
  IF p + 2 > Len(s) THEN 0
  ELSE IF SubSeq(s, p, p + 2) = <<" ", "-", " ">> THEN p
  ELSE IndexOfSep(s, p + 1)

\* a || b on cells.
OrElse(a, b) == IF TruthyStr(a) THEN a ELSE b

\* doseVal !== undefined && String(doseVal).trim() !== ""
\*   ? parseFloatSafe(doseVal) : NaN
DoseOf(doseVal) ==
  IF doseVal # undefined /\ Trim(doseVal) # <<>> THEN parseFloatSafe(doseVal) ELSE NaN

\* Number.isFinite(dose) && dose > 0 ? `${dose} mg` : ""
DoseLabel(dose) ==
  IF isFinite(dose) /\ NumLt(Num(0), dose)
  THEN NumberToString(dose) \o <<" ", "m", "g">> ELSE <<>>

\* actionRaw === "START" || actionRaw === "STOP" ? actionRaw : undefined
ActionOf(actionRaw) ==
  IF actionRaw = <<"S", "T", "A", "R", "T">> \/ actionRaw = <<"S", "T", "O", "P">>
  THEN actionRaw ELSE <<>>

\* [med, doseLabel].filter(Boolean).join(" ")
JoinParts(med, doseLabel) ==
  IF med # <<>> /\ doseLabel # <<>> THEN med \o <<" ">> \o doseLabel
  ELSE med \o doseLabel

\* action ? `${parts} - ${action}` : parts
LabelOf(parts, action) ==
  IF action # <<>> THEN parts \o <<" ", "-", " ">> \o action ELSE parts

MedRowLabel(row) ==
  LabelOf(JoinParts(Trim(StringOrEmpty(
                      OrElse(OrElse(row["medication"], row["Medication"]), <<>>))),
                    DoseLabel(DoseOf(Nullish(row["dose_mg"],
                                             Nullish(row["DoseMg"], row["dose"]))))),
          ActionOf(toUpperCase(Trim(StringOrEmpty(
                     OrElse(OrElse(row["action"], row["Action"]), <<>>))))))

\* The event of a row whose date cell is dateStr: none when the cell is
\* empty or is not a date.
DatedEvent(dateStr, d, label) ==
  IF ~TruthyStr(dateStr) THEN <<>>
  ELSE IF isNaN(d) THEN <<>>
  ELSE <<[date |-> d, label |-> label]>>

MedRowEventAt(row, dateStr) == DatedEvent(dateStr, DateOf(dateStr), MedRowLabel(row))

\* The MedEvent of one row of the medication table: <<>> when the row is
\* skipped, else the one event.
MedRowEvent(row) == MedRowEventAt(row, OrElse(row["date"], row["Date"]))

RECURSIVE PushMedRows(_, _)
PushMedRows(events, data) ==
  IF data = <<>> THEN events
  ELSE PushMedRows(events \o MedRowEvent(Head(data)), Tail(data))

\* parseMedsCsvText, after Papa.parse has produced `data`.
parseMedsCsvText(data) == SortByDate(PushMedRows(<<>>, data))

\* The MedEvent of one line of the medication text.
MedLineEventAt(line, idx) ==
  IF idx = 0 THEN <<>>
  ELSE IF isNaN(DateOf(Trim(SubSeq(line, 1, idx - 1)))) THEN <<>>
  ELSE <<[date |-> DateOf(Trim(SubSeq(line, 1, idx - 1))),
          label |-> Trim(SubSeq(line, idx + 3, Len(line)))]>>

MedLineEvent(line) == MedLineEventAt(line, IndexOfSep(line, 1))

RECURSIVE PushMedLines(_, _)
PushMedLines(events, lines) ==
  IF lines = <<>> THEN events
  ELSE LET l == Trim(Head(lines))
       IN  PushMedLines(IF l = <<>> THEN events ELSE events \o MedLineEvent(l),
                        Tail(lines))

\* parseMedsTxt, after text.split(/\r?\n/) has produced `lines`.
parseMedsTxt(lines) == SortByDate(PushMedLines(<<>>, lines))

\* ---------------------------------------------------------------- App state
\* The state of App (useState), the asynchronous calls in flight (loads),
\* the values of the memos and of MedDeltaTable after the last render, and
\* lastLoad, the load whose result sleepRows holds (<<>> before any), and
\* started, every load in the order the loads were started.
VARIABLES sleepRows, meds, minHours, maxHours, dateFrom, dateTo, rollK,
          sortColumn, sortDirection, loads, lastLoad, started,
          filtered, enriched, monthlyData, deltaRows

appState == <<sleepRows, meds, minHours, maxHours, dateFrom, dateTo, rollK,
              sortColumn, sortDirection, loads, lastLoad, started>>
appVars == <<appState, filtered, enriched, monthlyData, deltaRows>>

\* A render after a state change: every memo's dependency list names
\* exactly the state its body reads, so each memo holds the value computed
\* from the new state; MedDeltaTable is rendered once there are sleep rows
\* and events.
Render ==
  /\ filtered' = Filtered(sleepRows', dateFrom', dateTo', minHours', maxHours')
  /\ enriched' = Enriched(sleepRows', filtered', rollK')
  /\ monthlyData' = MonthlyData(sleepRows', filtered', sortColumn', sortDirection')
  /\ deltaRows' = IF Len(sleepRows') > 0 /\ Len(meds') > 0
                  THEN MedDeltaTable(meds', sleepRows') ELSE <<>>
  /\ UNCHANGED rollVars

\* The initial sixMonthsAgo of dateFrom, for the time `now` of the mount.
DefaultDateFromDays == 180
sixMonthsAgo(now) == addDays(now, -DefaultDateFromDays)

\* The state after the first render, mounted at the time now, with the
\* loads inFlight (the default fetches of medications.csv and of
\* sleep_data.csv, an upload): each a load [target, kind, ok, content].
AppInit(now, inFlight) ==
  /\ sleepRows = <<>>
  /\ meds = <<>>
  /\ minHours = Num(5)
  /\ maxHours = Num(12)
  /\ dateFrom = sixMonthsAgo(now)
  /\ dateTo = null
  /\ rollK = 7
  /\ sortColumn = "month"
  /\ sortDirection = "desc"
  /\ loads = inFlight
  /\ lastLoad = <<>>
  /\ started = inFlight
  /\ filtered = <<>>
  /\ enriched = <<>>
  /\ monthlyData = <<>>
  /\ deltaRows = <<>>

Load(target, kind, ok, content) ==
  [target |-> target, kind |-> kind, ok |-> ok, content |-> content]

\* A fetch that ends with !res.ok (or throws): nothing is set.
FailedFetch(target) == Load(target, "fetch", FALSE, <<>>)

\* The rows or events a load resolves to.
LoadResult(l) ==
  IF l.target = "sleep"
  THEN (IF l.kind = "zip" THEN parseZip(l.content) ELSE parseCsv(l.content))
  ELSE (IF l.kind = "txt" THEN parseMedsTxt(l.content) ELSE parseMedsCsvText(l.content))

\* The awaited read of load n resolves and the rest of its async function
\* runs: setSleepRows or setMeds with what was parsed; a fetch that was not
\* ok, or a read that rejects, sets nothing.
LoadDone(n) ==
  /\ n \in 1..Len(loads)
  /\ LET l == loads[n]
     IN  /\ loads' = SubSeq(loads, 1, n - 1) \o SubSeq(loads, n + 1, Len(loads))
         /\ IF ~l.ok THEN UNCHANGED <<sleepRows, meds, lastLoad>>
            ELSE IF l.target = "sleep"
            THEN /\ sleepRows' = LoadResult(l)
                 /\ lastLoad' = <<l>>
                 /\ UNCHANGED meds
            ELSE /\ meds' = LoadResult(l)
                 /\ UNCHANGED <<sleepRows, lastLoad>>
  /\ UNCHANGED <<minHours, maxHours, dateFrom, dateTo, rollK, sortColumn, sortDirection,
                 started>>
  /\ Render

\* onUpload for a chosen file [name, ok, content]: a .zip or .csv file is
\* read asynchronously; for any other name rows stays [] and is set at once.
onUpload(file) ==
  /\ IF EndsWithZip(file.name)
     THEN /\ loads' = Append(loads, Load("sleep", "zip", file.ok, file.content))
          /\ started' = Append(started, Load("sleep", "zip", file.ok, file.content))
          /\ UNCHANGED <<sleepRows, lastLoad>>
     ELSE IF EndsWithCsv(file.name)
     THEN /\ loads' = Append(loads, Load("sleep", "csv", file.ok, file.content))
          /\ started' = Append(started, Load("sleep", "csv", file.ok, file.content))
          /\ UNCHANGED <<sleepRows, lastLoad>>
     ELSE /\ sleepRows' = <<>>
          /\ lastLoad' = <<Load("sleep", "other", TRUE, file.content)>>
          /\ started' = Append(started, Load("sleep", "other", TRUE, file.content))
          /\ UNCHANGED loads
  /\ UNCHANGED <<meds, minHours, maxHours, dateFrom, dateTo, rollK, sortColumn,
                 sortDirection>>
  /\ Render

\* onUploadMeds for a chosen file: .csv is the table format, any other
\* name the line format.
onUploadMeds(file) ==
  /\ loads' = Append(loads, Load("meds", IF EndsWithCsv(file.name) THEN "csv" ELSE "txt",
                                 file.ok, file.content))
  /\ started' = Append(started, Load("meds", IF EndsWithCsv(file.name) THEN "csv" ELSE "txt",
                                     file.ok, file.content))
  /\ UNCHANGED <<sleepRows, lastLoad, meds, minHours, maxHours, dateFrom, dateTo,
                 rollK, sortColumn, sortDirection>>
  /\ Render

setDateFrom(d) ==
  /\ dateFrom' = d
  /\ UNCHANGED <<sleepRows, meds, minHours, maxHours, dateTo, rollK, sortColumn,
                 sortDirection, loads, lastLoad, started>>
  /\ Render

setDateTo(d) ==
  /\ dateTo' = d
  /\ UNCHANGED <<sleepRows, meds, minHours, maxHours, dateFrom, rollK, sortColumn,
                 sortDirection, loads, lastLoad, started>>
  /\ Render

setRollK(w) ==
  /\ rollK' = w
  /\ UNCHANGED <<sleepRows, meds, minHours, maxHours, dateFrom, dateTo, sortColumn,
                 sortDirection, loads, lastLoad, started>>
  /\ Render

\* handleSort(column, direction)
handleSort(column, direction) ==
  /\ sortColumn' = column
  /\ sortDirection' = direction
  /\ UNCHANGED <<sleepRows, meds, minHours, maxHours, dateFrom, dateTo, rollK,
                 loads, lastLoad, started>>
  /\ Render

\* A click that keeps the direction at hand for a newly selected column.
handleClickKeepsDirection(column) ==
  IF sortColumn = column
  THEN handleSort(column, IF sortDirection = "asc" THEN "desc" ELSE "asc")
  ELSE handleSort(column, sortDirection)

\* SortableHeader.handleClick of the header of `column`.
handleClick(column) ==
  IF sortColumn = column
  THEN handleSort(column, IF sortDirection = "asc" THEN "desc" ELSE "asc")
  ELSE handleSort(column, "desc")

\* Every sequence over S of length at most n.
SeqsUpTo(S, n) == UNION {[1..m -> S] : m \in 0..n}

\* The elements and accessors of the rolling loop's inputs: the fields the
\* call sites read (x.totalSleep, x.awake), with whole, fractional and
\* negative values.
RollElems ==
  [totalSleep : {Num(0), Num(7), Norm(15, 2)}, awake : {Num(1), Norm(-1, 2)}]
Getters == {"totalSleep", "awake"}

RollingEntry ==
  /\ arr \in SeqsUpTo(RollElems, MaxLen)
  /\ k \in 1..(MaxLen + 1)
  /\ getter \in Getters
  /\ i = 0
  /\ sum = Num(0)
  /\ q = <<>>
  /\ out = [n \in 1..Len(arr) |-> null]

RollingIdle ==
  /\ arr = <<>> /\ k = 1 /\ getter = "totalSleep"
  /\ i = 0 /\ sum = Num(0) /\ q = <<>> /\ out = <<>>

\* for (let i = 0; i < arr.length; i++) { ... }: one iteration.
RollingStep ==
  /\ i < Len(arr)
  /\ LET st == RollingBody([i |-> i, sum |-> sum, q |-> q, out |-> out],
                           arr[i + 1][getter], k)
     IN  /\ i' = st.i
         /\ sum' = st.sum
         /\ q' = st.q
         /\ out' = st.out
  /\ UNCHANGED <<arr, k, getter>>

RollingReturned == i = Len(arr)

vars == <<rollVars, appVars>>

\* An App that is not mounted.
AppIdle ==
  /\ sleepRows = <<>> /\ meds = <<>> /\ minHours = Num(5) /\ maxHours = Num(12)
  /\ dateFrom = null /\ dateTo = null /\ rollK = 7
  /\ sortColumn = "month" /\ sortDirection = "desc"
  /\ loads = <<>> /\ lastLoad = <<>> /\ started = <<>>
  /\ filtered = <<>> /\ enriched = <<>> /\ monthlyData = <<>> /\ deltaRows = <<>>

\* rolling on its own: every input sequence, window width and accessor.
InitRolling == RollingEntry /\ AppIdle
NextRolling == RollingStep /\ UNCHANGED appVars
SpecRolling == InitRolling /\ [][NextRolling]_vars

\* ------------------------------------------------------------------ inputs
\* The text "YYYY-MM-DD" of day number n, and times of day.
Ymd(n) == isoDate(Num(n * SecondsPerDay))
At1400 == <<" ", "1", "4", ":", "0", "0">>
At2300 == <<" ", "2", "3", ":", "0", "0", ":", "0", "0">>
Junk == <<"n", "/", "a">>

\* The time of the mount: 14:00 on day 181, so that sixMonthsAgo is 14:00
\* on day 1.
MountTime == DateOf(Ymd(181) \o At1400)

BlankRow == [h \in DateHeaders \cup NumHeaders |-> undefined]

WithDates(row, dt, d, dl) ==
  [row EXCEPT !["Date/Time"] = dt, !["Date"] = d, !["date"] = dl]

\* Numeric cells under the first aliases, with decimal commas.
Nums1 ==
  [BlankRow EXCEPT !["Total Sleep (hr)"] = <<"7", ",", "5">>, !["Core (hr)"] = <<"4">>,
                   !["Deep (hr)"] = <<"1">>, !["REM (hr)"] = <<"1", ".", "5">>,
                   !["Awake (hr)"] = <<"0", ",", "5">>]
\* Numeric cells under the later aliases: empty, unparseable, negative.
Nums2 ==
  [BlankRow EXCEPT !["Asleep (hr)"] = <<"6">>, !["Core"] = <<"3">>, !["Deep"] = <<>>,
                   !["REM"] = <<"x">>, !["Awake"] = <<"-", "1">>]
\* An empty first alias hides the later ones; the other columns are missing.
Nums3 ==
  [BlankRow EXCEPT !["Total Sleep (hr)"] = <<>>, !["Asleep (hr)"] = <<"6">>,
                   !["TotalSleep"] = <<"8">>]

\* The date cells <<Date/Time, Date, date>> of the rows of a table.
NormDateCells ==
  {<<undefined, Ymd(1), undefined>>,
   <<Ymd(1) \o At1400, undefined, undefined>>,
   <<undefined, undefined, Ymd(0)>>,
   <<<<>>, Ymd(2), undefined>>,
   <<Junk, Ymd(0), undefined>>,
   <<undefined, undefined, undefined>>,
   <<undefined, <<>>, undefined>>}

NormRows ==
  {WithDates(nums, c[1], c[2], c[3]) : nums \in {Nums1, Nums2, Nums3}, c \in NormDateCells}

\* The rows of the tables of an archive: two of the same date, one earlier,
\* one without a date.
ArchiveRows ==
  {WithDates(Nums1, undefined, Ymd(1), undefined),
   WithDates(Nums2, undefined, Ymd(1), undefined),
   WithDates(Nums3, undefined, undefined, Ymd(0)),
   WithDates(Nums1, undefined, undefined, undefined)}

FileName(ext) == [ext |-> ext]

\* The entries of an archive: tables of no row or one row, named .CSV or
\* .txt.
ArchiveFiles ==
  [name : {FileName("CSV"), FileName("txt")},
   parsed : {<<>>} \cup {<<r>> : r \in ArchiveRows}]

NormalizeLoads ==
  {Load("sleep", "csv", TRUE, t) : t \in SeqsUpTo(NormRows, MaxRows)}
    \cup {Load("sleep", "zip", TRUE, a) : a \in SeqsUpTo(ArchiveFiles, MaxFiles)}

\* The normalizer: one table or archive is being read; the read resolves.
InitNormalize ==
  /\ RollingIdle
  /\ \E l \in NormalizeLoads : AppInit(MountTime, <<l>>)
NextNormalize == LoadDone(1)
SpecNormalize == InitNormalize /\ [][NextNormalize]_vars

\* A night's numeric cells: total sleep, core, deep, REM, awake.
Night(total, core, deep, rem, awake) ==
  [BlankRow EXCEPT !["Total Sleep (hr)"] = total, !["Core (hr)"] = core,
                   !["Deep (hr)"] = deep, !["REM (hr)"] = rem,
                   !["Awake (hr)"] = awake]

\* Nights within the hours range (one at its lower end) and one without any
\* sleep.  The inputs of minHours and maxHours are commented out in the
\* JSX, so the range stays 5 to 12.
Night8 == Night(<<"8">>, <<"4", ".", "2">>, <<"1", ".", "2">>, <<"1", ".", "6">>, <<"1", ".", "0">>)
Night7 == Night(<<"7">>, <<"4", ".", "0">>, <<"1", ".", "0">>, <<"1", ".", "0">>, <<"1", ".", "0">>)
Night5 == Night(<<"5">>, <<"2", ".", "5">>, <<"1">>, <<"1">>, <<"0", ".", "5">>)
Night0 == Night(<<"0">>, <<"0">>, <<"0">>, <<"0">>, <<"8">>)

Dated(night, text) == [night EXCEPT !["Date/Time"] = text]

\* Nights on days 1 to 3, with and without a time of day.
FilterRows ==
  {Dated(Night8, Ymd(1)), Dated(Night7, Ymd(2)), Dated(Night0, Ymd(2) \o At2300),
   Dated(Night5, Ymd(3))}

\* What the date pickers and their presets hand over: null, a midnight, a
\* time of day.
FromDates == {null, sixMonthsAgo(MountTime), DateOf(Ymd(2))}
ToDates == {null, DateOf(Ymd(2)), DateOf(Ymd(2) \o At1400)}
RollWidths == 1..(MaxRows + 1)

\* Filter and derive: the default table is fetched and the filter bounds
\* and the rolling width are changed.
InitFilter ==
  /\ RollingIdle
  /\ \E t \in SeqsUpTo(FilterRows, MaxRows) :
       AppInit(MountTime, <<Load("sleep", "fetch", TRUE, t)>>)
NextFilter ==
  \/ LoadDone(1)
  \/ \E d \in FromDates : setDateFrom(d)
  \/ \E d \in ToDates : setDateTo(d)
  \/ \E w \in RollWidths : setRollK(w)
SpecFilter == InitFilter /\ [][NextFilter]_vars

\* Most rows of a sleep table for the summaries, most rows of a medication
\* table.
MaxNights == 3
MaxEvents == 2

MedHeaders ==
  {"date", "Date", "medication", "Medication", "dose_mg", "DoseMg", "dose",
   "action", "Action"}
BlankMedRow == [h \in MedHeaders |-> undefined]

\* The day of the events, 2024-02-10, and the nights around it.
EventDay == Ymd(40)
EventAtMidnight ==
  [BlankMedRow EXCEPT !["date"] = EventDay, !["medication"] = <<"A">>,
                      !["dose_mg"] = <<"1", "0">>,
                      !["action"] = <<"s", "t", "a", "r", "t">>]
EventAt1400 ==
  [BlankMedRow EXCEPT !["Date"] = EventDay \o At1400, !["Medication"] = <<"B">>]
EventRows == {EventAtMidnight, EventAt1400}

\* Nights 30 days and one day before the event day (the latter with a time
\* of day), one day and 30 days after it.
DeltaNights ==
  {Dated(Night8, Ymd(10)), Dated(Night0, Ymd(39) \o At2300),
   Dated(Night7, Ymd(41)), Dated(Night8, Ymd(70))}

\* The event deltas: on mount the fetches of medications.csv and of
\* sleep_data.csv are in flight and resolve in either order.
InitDelta ==
  /\ RollingIdle
  /\ \E t \in SeqsUpTo(DeltaNights, MaxNights), e \in SeqsUpTo(EventRows, MaxEvents) :
       AppInit(MountTime, <<Load("meds", "fetch", TRUE, e),
                            Load("sleep", "fetch", TRUE, t)>>)
NextDelta == \E n \in 1..2 : LoadDone(n)
SpecDelta == InitDelta /\ [][NextDelta]_vars

\* A night with a negative total.
NightNeg == Night(<<"-", "1">>, <<"0">>, <<"0">>, <<"1">>, <<"1">>)

\* Nights of December 2023, January 2024 and February 2024.
MonthNights ==
  {Dated(Night7, Ymd(-5)), Dated(Night8, Ymd(1)), Dated(Night0, Ymd(20)),
   Dated(Night7, Ymd(35)), Dated(NightNeg, Ymd(40))}

\* The monthly summary: the default table is fetched and the headers of
\* the table are clicked.
InitMonthly ==
  /\ RollingIdle
  /\ \E t \in SeqsUpTo(MonthNights, MaxNights) :
       AppInit(MountTime, <<Load("sleep", "fetch", TRUE, t)>>)
NextMonthly ==
  \/ LoadDone(1)
  \/ \E col \in Columns : handleClick(col)
SpecMonthly == InitMonthly /\ [][NextMonthly]_vars

\* Nights of two months, one of them without sleep.
FrameNights == {Dated(Night8, Ymd(1)), Dated(Night0, Ymd(2)), Dated(Night7, Ymd(35))}
FrameDates == {null, DateOf(Ymd(2)), DateOf(Ymd(2) \o At1400)}
FrameColumns == {"month", "total"}

\* The controls: the default table is fetched, the filter bounds and the
\* rolling width are changed and headers are clicked.
InitFrame ==
  /\ RollingIdle
  /\ \E t \in SeqsUpTo(FrameNights, MaxRows) :
       AppInit(MountTime, <<Load("sleep", "fetch", TRUE, t)>>)
NextFrame ==
  \/ LoadDone(1)
  \/ \E d \in FrameDates : setDateFrom(d)
  \/ \E d \in FrameDates : setDateTo(d)
  \/ \E w \in RollWidths : setRollK(w)
  \/ \E col \in FrameColumns : handleClick(col)
SpecFrame == InitFrame /\ [][NextFrame]_vars

\* 2024-03-10, the day of the medication scenarios.
ScenarioDay == <<"2", "0", "2", "4", "-", "0", "3", "-", "1", "0">>
Sertraline == <<"S", "e", "r", "t", "r", "a", "l", "i", "n", "e">>

\* Rows of a medication table: the scenario row; a decimal comma dose, a
\* padded name and a mixed-case STOP under the later aliases; an action that
\* is neither START nor STOP with a zero dose; a name only, of an earlier
\* day; a negative dose; a row without a date; a row whose date is no date.
SertralineRow ==
  [BlankMedRow EXCEPT !["date"] = ScenarioDay, !["medication"] = Sertraline,
                      !["dose_mg"] = <<"5", "0">>,
                      !["action"] = <<"s", "t", "a", "r", "t">>]
MedRows ==
  {SertralineRow,
   [BlankMedRow EXCEPT !["Date"] = ScenarioDay \o At1400, !["Medication"] = <<" ", "B", " ">>,
                       !["dose"] = <<"2", ",", "5">>, !["Action"] = <<"S", "t", "o", "p">>],
   [BlankMedRow EXCEPT !["date"] = ScenarioDay, !["medication"] = <<"C">>,
                       !["dose_mg"] = <<"0">>, !["action"] = <<"p", "a", "u", "s", "e">>],
   [BlankMedRow EXCEPT !["date"] = EventDay, !["medication"] = <<"A">>],
   [BlankMedRow EXCEPT !["date"] = ScenarioDay, !["medication"] = <<"D">>,
                       !["DoseMg"] = <<"-", "5">>, !["action"] = <<"S", "T", "O", "P">>],
   [BlankMedRow EXCEPT !["medication"] = <<"E">>, !["dose_mg"] = <<"5">>],
   [BlankMedRow EXCEPT !["date"] = Junk, !["medication"] = <<"F">>]}

\* Lines of a medication text: the scenario line; a padded line of the same
\* day; an earlier day with a second separator; a prefix that is no date; a
\* line without a separator; a blank line.
Sep == <<" ", "-", " ">>
SertralineLine == ScenarioDay \o Sep \o Sertraline \o <<" ", "5", "0", "m", "g">> \o Sep \o <<"S", "T", "A", "R", "T">>
MedLines ==
  {SertralineLine,
   <<" ">> \o ScenarioDay \o Sep \o <<"B", " ">>,
   EventDay \o Sep \o <<"A">> \o Sep \o <<"S", "T", "O", "P">>,
   Junk \o Sep \o <<"X">>,
   Sertraline,
   <<" ">>}

MedLoads ==
  {Load("meds", "csv", TRUE, t) : t \in SeqsUpTo(MedRows, MaxEvents)}
    \cup {Load("meds", "txt", TRUE, t) : t \in SeqsUpTo(MedLines, MaxEvents)}

\* The medication parsers: a medication table or text has been chosen and is
\* being read; the read resolves.
InitMeds ==
  /\ RollingIdle
  /\ \E l \in MedLoads : AppInit(MountTime, <<l>>)
NextMeds == LoadDone(1)
SpecMeds == InitMeds /\ [][NextMeds]_vars

\* Most loads started in a run: the two fetches of the mount and the uploads.
MaxStarted == 4

\* What /sleep_data.csv is fetched as: a table of one night, or a response
\* that is not ok.
DefaultSleepFetches ==
  {Load("sleep", "fetch", TRUE, <<Dated(Night8, Ymd(1))>>), FailedFetch("sleep")}

\* The files chosen in the sleep upload: a table, an archive of one table,
\* and a file that is neither (its content is never read).
SleepFiles ==
  {[name |-> FileName("CSV"), ok |-> TRUE, content |-> <<Dated(Night7, Ymd(2))>>],
   [name |-> FileName("zip"), ok |-> TRUE,
    content |-> <<[name |-> FileName("csv"), parsed |-> <<Dated(Night5, Ymd(3))>>]>>],
   [name |-> FileName("txt"), ok |-> TRUE, content |-> <<>>]}

\* The file chosen in the medication upload: a text of one line.
MedFiles == {[name |-> FileName("txt"), ok |-> TRUE, content |-> <<SertralineLine>>]}

\* The loads: on mount the fetches of medications.csv and of sleep_data.csv
\* are in flight; files are uploaded while reads are pending, and the
\* pending reads resolve in any order.
InitLoads ==
  /\ RollingIdle
  /\ \E l \in DefaultSleepFetches :
       AppInit(MountTime, <<Load("meds", "fetch", TRUE, <<EventAtMidnight>>), l>>)
NextLoads ==
  \/ Len(started) < MaxStarted /\ \E file \in SleepFiles : onUpload(file)
  \/ Len(started) < MaxStarted /\ \E file \in MedFiles : onUploadMeds(file)
  \/ \E n \in 1..Len(loads) : LoadDone(n)
SpecLoads == InitLoads /\ [][NextLoads]_vars

\* ------------------------------------------------------------------ claims
RECURSIVE SumRange(_, _, _, _)
SumRange(xs, lo, hi, key) ==
  IF lo > hi THEN Num(0) ELSE NumAdd(SumRange(xs, lo, hi - 1, key), xs[hi][key])

\* The arithmetic mean of the accessor values at positions lo..hi.
MeanRange(xs, lo, hi, key) == NumDiv(SumRange(xs, lo, hi, key), Num(hi - lo + 1))

\* C1: rolling returns a sequence as long as its input whose entry at the
\* 0-based index n-1 is null when n-1 < k-1 and otherwise the arithmetic mean
\* of the accessor values at the k positions ending there; for k = 1 every
\* entry is the accessor value itself, for k > N every entry is null.
C1_RollingMean ==
  RollingReturned =>
    /\ Len(out) = Len(arr)
    /\ \A n \in 1..Len(arr) :
         out[n] = IF n < k THEN null ELSE MeanRange(arr, n - k + 1, n, getter)
    /\ k = 1 => \A n \in 1..Len(arr) : out[n] = arr[n][getter]
    /\ k > Len(arr) => \A n \in 1..Len(arr) : out[n] = null

\* A finished run over three elements with a window of two: one absent
\* entry, then means of two different values after the queue has shifted.
C1_Witness ==
  /\ RollingReturned /\ Len(arr) = 3 /\ k = 2
  /\ out[1] = null /\ out[2] # null /\ out[3] # null
  /\ out[3] # out[2] /\ out[3] # arr[3][getter]

\* The raw rows a load meets, in the order it meets them: the rows of the
\* table, or of the archive's tables whose names end in .csv.
RECURSIVE Encountered(_)
Encountered(files) ==
  IF files = <<>> THEN <<>>
  ELSE (IF EndsWithCsv(Head(files).name) THEN Head(files).parsed ELSE <<>>)
         \o Encountered(Tail(files))

RawRowsOf(l) == IF l.kind = "zip" THEN Encountered(l.content) ELSE l.content

\* The date text a raw row resolves to: its first non-empty date alias.
ResolvedDate(row) ==
  IF TruthyStr(row["Date/Time"]) THEN row["Date/Time"]
  ELSE IF TruthyStr(row["Date"]) THEN row["Date"]
  ELSE row["date"]

HasParseableDate(row) ==
  TruthyStr(ResolvedDate(row)) /\ ~isNaN(DateOf(ResolvedDate(row)))

\* The place of the j-th dated row in a stable ascending order by date.
StableRank(good, j) ==
  Cardinality({l \in 1..Len(good) :
                 \/ NumLt(DateOf(ResolvedDate(good[l])), DateOf(ResolvedDate(good[j])))
                 \/ /\ l <= j
                    /\ DateOf(ResolvedDate(good[l])) = DateOf(ResolvedDate(good[j]))})

\* C5: the normalizer's output holds exactly the rows with a resolvable,
\* parseable date (the others are dropped), holds no invalid date, is sorted
\* ascending by date, and rows of equal dates keep their encounter order.
C5_NormalizedSorted ==
  lastLoad # <<>> =>
    LET good == SelectSeq(RawRowsOf(lastLoad[1]), HasParseableDate)
    IN  /\ Len(sleepRows) = Len(good)
        /\ \A n \in 1..Len(sleepRows) : ~isNaN(sleepRows[n].date)
        /\ \A a, b \in 1..Len(sleepRows) :
             a < b => NumLe(sleepRows[a].date, sleepRows[b].date)
        /\ \A j \in 1..Len(good) :
             sleepRows[StableRank(good, j)] = normalizeRow(good[j])[1]

\* An archive of three tables was read: a row without a date was dropped and
\* two different rows of the same date are in the output.
C5_Witness ==
  /\ lastLoad # <<>> /\ lastLoad[1].kind = "zip" /\ Len(lastLoad[1].content) = 3
  /\ Len(sleepRows) = 2 /\ Len(RawRowsOf(lastLoad[1])) > 2
  /\ sleepRows[1].date = sleepRows[2].date /\ sleepRows[1] # sleepRows[2]

SleepFields == {"totalSleep", "core", "deep", "rem", "awake"}

\* C6: every record of the normalizer has finite, non-negative totalSleep,
\* core, deep, rem and awake.
C6_FiniteNonNegative ==
  \A n \in 1..Len(sleepRows) : \A f \in SleepFields :
    isFinite(sleepRows[n][f]) /\ NumLe(Num(0), sleepRows[n][f])

InSeq(x, xs) == \E n \in 1..Len(xs) : xs[n] = x

InHoursRange(r) == NumLe(minHours, r.totalSleep) /\ NumLe(r.totalSleep, maxHours)

\* C2: the date range is inclusive on both ends by calendar date: a record
\* dated dateFrom is retained, a record dated dateTo is retained, a record
\* dated dateTo + 1 day is excluded (records within the hours range and
\* within the other bound).
C2_DateRangeInclusive ==
  \A n \in 1..Len(sleepRows) :
    LET r == sleepRows[n]
        fromOk == IsSet(dateFrom) => DayOf(dateFrom) <= DayOf(r.date)
        toOk == IsSet(dateTo) => DayOf(r.date) <= DayOf(dateTo)
    IN  InHoursRange(r) =>
          /\ (IsSet(dateFrom) /\ DayOf(r.date) = DayOf(dateFrom) /\ toOk)
               => InSeq(r, filtered)
          /\ (IsSet(dateTo) /\ DayOf(r.date) = DayOf(dateTo) /\ fromOk)
               => InSeq(r, filtered)
          /\ (IsSet(dateTo) /\ DayOf(r.date) = DayOf(dateTo) + 1)
               => ~InSeq(r, filtered)

\* The three filters as one condition on a record.
PassesFilters(r) ==
  /\ IsSet(dateFrom) => NumLe(dateFrom, r.date)
  /\ IsSet(dateTo) => NumLt(r.date, NumAdd(dateTo, Num(SecondsPerDay)))
  /\ InHoursRange(r)

\* C3: the filtered rows are exactly the records that pass all three
\* filters, in their order and unaltered; no rows give no rows.
C3_FilterConjunction ==
  /\ filtered = SelectSeq(sleepRows, PassesFilters)
  /\ sleepRows = <<>> => filtered = <<>>

\* Both date bounds are set and, of two rows loaded, the earlier fails the
\* lower date bound only and the later survives.
C3_Witness ==
  /\ Len(sleepRows) = 2 /\ Len(filtered) = 1
  /\ IsSet(dateFrom) /\ IsSet(dateTo)
  /\ filtered[1] = sleepRows[2]
  /\ ~NumLe(dateFrom, sleepRows[1].date) /\ InHoursRange(sleepRows[1])

\* stage hours / totalSleep * 100, 0 when totalSleep is 0.
StagePct(x, totalSleep) ==
  IF totalSleep = Num(0) THEN Num(0) ELSE NumDiv(NumMul(x, Num(100)), totalSleep)

ClaimMetrics(r) ==
  [remPct |-> StagePct(r.rem, r.totalSleep), deepPct |-> StagePct(r.deep, r.totalSleep),
   corePct |-> StagePct(r.core, r.totalSleep), totalSleep |-> r.totalSleep,
   awake |-> r.awake]

\* The rolling value at position n of xs: absent before a full window.
WindowMean(xs, n, w, key) ==
  IF n < w THEN null ELSE MeanRange(xs, n - w + 1, n, key)

\* C4: enriched has one entry per filtered record, in order; its percentages
\* are stage hours / totalSleep * 100 (0 for no sleep) and its rolling
\* fields are the window means over the filtered records.
C4_DeriveOverFiltered ==
  LET ms == [n \in 1..Len(filtered) |-> ClaimMetrics(filtered[n])]
  IN  /\ Len(enriched) = Len(filtered)
      /\ \A n \in 1..Len(filtered) :
           LET e == enriched[n]
           IN  /\ \A f \in SleepFields \cup {"date"} : e[f] = filtered[n][f]
               /\ e.remPct = ms[n].remPct
               /\ e.deepPct = ms[n].deepPct
               /\ e.corePct = ms[n].corePct
               /\ e.remRoll = WindowMean(ms, n, rollK, "remPct")
               /\ e.deepRoll = WindowMean(ms, n, rollK, "deepPct")
               /\ e.totalRoll = WindowMean(ms, n, rollK, "totalSleep")
               /\ e.awakeRoll = WindowMean(ms, n, rollK, "awake")

\* The two nights of the scenario (8 h with 1.6 h REM, 7 h with 1 h REM) and
\* a window of 2: REM of 20 % and 100/7 %, no rolling value at the first
\* night and their mean, 120/7 %, at the second.
C4_Witness ==
  /\ Len(enriched) = 2 /\ rollK = 2
  /\ enriched[1].remPct = Num(20) /\ enriched[2].remPct = Norm(100, 7)
  /\ enriched[1].remRoll = null /\ enriched[2].remRoll = Norm(120, 7)

\* The calendar-day condition of a window: day d within lo..hi days of day e.
DayWithin(d, e, lo, hi) == e + lo <= d /\ d <= e + hi

\* C7: a record is in an event's pre window iff its date is within 30 days
\* to one day before the event's date, in the post window iff its date is
\* within one day to 30 days after it; a record of the event day is in
\* neither window and no record is in both.
C7_WindowsByDate ==
  \A a \in 1..Len(meds) : \A n \in 1..Len(sleepRows) :
    LET m == meds[a]
        r == sleepRows[n]
        inPre == InSeq(r, preWindow(sleepRows, m))
        inPost == InSeq(r, postWindow(sleepRows, m))
    IN  /\ inPre <=> DayWithin(DayOf(r.date), DayOf(m.date), -30, -1)
        /\ inPost <=> DayWithin(DayOf(r.date), DayOf(m.date), 1, 30)
        /\ DayOf(r.date) = DayOf(m.date) => ~inPre /\ ~inPost
        /\ ~(inPre /\ inPost)

\* The mean of a metric of the table over the records xs.
ClaimMean(xs, metric) ==
  MeanRange([n \in 1..Len(xs) |-> ClaimMetrics(xs[n])], 1, Len(xs),
            CASE metric = "rem" -> "remPct" [] metric = "deep" -> "deepPct"
              [] metric = "total" -> "totalSleep" [] metric = "awake" -> "awake")

\* C8: every event has its row; each delta of the row is NaN when the pre
\* or the post window is empty and otherwise mean(post) - mean(pre), the
\* means of rem and deep being means of percentages computed from the hours.
C8_DeltaOfMeans ==
  /\ Len(sleepRows) > 0 => Len(deltaRows) = Len(meds)
  /\ \A n \in 1..Len(deltaRows) :
       LET pre == preWindow(sleepRows, deltaRows[n].m)
           post == postWindow(sleepRows, deltaRows[n].m)
       IN  \A metric \in {"rem", "deep", "total", "awake"} :
             deltaRows[n].delta[metric] =
               IF pre = <<>> \/ post = <<>> THEN NaN
               ELSE NumSub(ClaimMean(post, metric), ClaimMean(pre, metric))

\* One event with an empty window and NaN deltas; one with a night before
\* and two different nights after it, whose REM delta is
\* (100/7 + 20) / 2 - 20 = -20/7.
C8_Witness ==
  /\ Len(deltaRows) = 2
  /\ \E n \in 1..2 : isNaN(deltaRows[n].delta.total)
  /\ \E n \in 1..2 :
       /\ Len(preWindow(sleepRows, deltaRows[n].m)) = 1
       /\ Len(postWindow(sleepRows, deltaRows[n].m)) = 2
       /\ deltaRows[n].delta.rem = Norm(-20, 7)
       /\ deltaRows[n].delta.total = Norm(-1, 2)

\* C9: every month with records has one summary; its count is the number
\* of the month's records, total and awake are their means, remPct and
\* deepPct are the means of the percentages of the records with
\* totalSleep > 0, and 0 when there is none; the summary of a month of one
\* record holds that record's values.
C9_MonthlyMeans ==
  /\ \A n \in 1..Len(sleepRows) :
       Cardinality({a \in 1..Len(monthlyData) :
                      monthlyData[a].month = formatYM(sleepRows[n].date)}) = 1
  /\ \A a \in 1..Len(monthlyData) :
       LET e == monthlyData[a]
           inMonth(r) == formatYM(r.date) = e.month
           slept(r) == NumLt(Num(0), r.totalSleep)
           grp == SelectSeq(sleepRows, inMonth)
           pos == SelectSeq(grp, slept)
       IN  /\ Len(grp) > 0
           /\ e.n = Num(Len(grp))
           /\ e.total = MeanRange(grp, 1, Len(grp), "totalSleep")
           /\ e.awake = MeanRange(grp, 1, Len(grp), "awake")
           /\ e.remPct = IF pos = <<>> THEN Num(0) ELSE ClaimMean(pos, "rem")
           /\ e.deepPct = IF pos = <<>> THEN Num(0) ELSE ClaimMean(pos, "deep")
           /\ Len(grp) = 1 =>
                /\ e.total = grp[1].totalSleep
                /\ e.awake = grp[1].awake
                /\ e.remPct = IF slept(grp[1]) THEN StagePct(grp[1].rem, grp[1].totalSleep)
                              ELSE Num(0)
                /\ e.deepPct = IF slept(grp[1]) THEN StagePct(grp[1].deep, grp[1].totalSleep)
                               ELSE Num(0)

\* January with a night of 8 h (REM 20 %) and a night without sleep: the
\* means of the hours are over both, the REM mean is over the first only;
\* February has one night.
C9_Witness ==
  /\ Len(sleepRows) = 3 /\ Len(monthlyData) = 2
  /\ \E a \in 1..2 :
       /\ monthlyData[a].n = Num(2) /\ monthlyData[a].total = Num(4)
       /\ monthlyData[a].remPct = Num(20)
  /\ \E a \in 1..2 :
       /\ monthlyData[a].n = Num(1) /\ monthlyData[a].total = Num(7)
       /\ monthlyData[a].remPct = Norm(100, 7)

\* The nights the monthly summary counts.
RECURSIVE NightsCounted(_)
NightsCounted(data) ==
  IF data = <<>> THEN 0 ELSE Head(data).n[1] + NightsCounted(Tail(data))

\* C10: the monthly summary counts every loaded record, filtered out or
\* not, and a step that changes neither the loaded records nor the sort
\* column and direction (a change of dateFrom, dateTo or rollK; nothing
\* changes minHours or maxHours) leaves the summary rows and their order as they are.
C10_MonthlyUnfiltered ==
  /\ [](NightsCounted(monthlyData) = Len(sleepRows))
  /\ [][(/\ sleepRows' = sleepRows
         /\ sortColumn' = sortColumn
         /\ sortDirection' = sortDirection) => monthlyData' = monthlyData]_vars

\* Two months are summarised, sorted by the clicked column, while the
\* filters, with an upper date bound set, let no record through.
C10_Witness ==
  /\ Len(sleepRows) = 2 /\ Len(monthlyData) = 2 /\ filtered = <<>>
  /\ IsSet(dateTo) /\ rollK = 2
  /\ sortColumn = "total" /\ sortDirection = "asc"
  /\ monthlyData[1].month = formatYM(sleepRows[1].date)
  /\ NumLt(monthlyData[1].total, monthlyData[2].total)

\* C11: a click on the header of the active sort column keeps the column
\* and flips the direction; a click on any other header makes that column
\* the active one with the direction desc, whatever the direction was.
C11_SortToggle ==
  [][\A c \in Columns :
       handleClick(c) =>
         /\ sortColumn' = c
         /\ sortDirection' = IF c # sortColumn THEN "desc"
                              ELSE IF sortDirection = "asc" THEN "desc" ELSE "asc"]_vars

\* A column other than the initial one is active and ascending: it was
\* selected (desc) and selected again (asc).
C11_Witness == sortColumn = "awake" /\ sortDirection = "asc" /\ Len(monthlyData) > 1

\* x < y on the values of a column of the monthly table.
ColumnLt(x, y, col) == IF col = "month" THEN StrLt(x, y) ELSE NumLt(x, y)

\* C12: the monthly table has exactly one row per calendar month of the
\* loaded records, in non-decreasing (asc) or non-increasing (desc) order of
\* the sort column; rows with equal values in that column are in ascending
\* order of their months, in both directions.
C12_MonthlySorted ==
  /\ {monthlyData[a].month : a \in 1..Len(monthlyData)}
       = {formatYM(sleepRows[n].date) : n \in 1..Len(sleepRows)}
  /\ \A a, b \in 1..Len(monthlyData) :
       a < b =>
         LET x == monthlyData[a][sortColumn]
             y == monthlyData[b][sortColumn]
         IN  /\ monthlyData[a].month # monthlyData[b].month
             /\ sortDirection = "asc" => ~ColumnLt(y, x, sortColumn)
             /\ sortDirection = "desc" => ~ColumnLt(x, y, sortColumn)
             /\ x = y => StrLt(monthlyData[a].month, monthlyData[b].month)

\* Three months sorted by total, descending: the month of 8 h first, then
\* the two months of 7 h, the earlier of them first.
C12_Witness ==
  /\ Len(monthlyData) = 3 /\ sortColumn = "total" /\ sortDirection = "desc"
  /\ NumLt(monthlyData[2].total, monthlyData[1].total)
  /\ monthlyData[2].total = monthlyData[3].total
  /\ StrLt(monthlyData[2].month, monthlyData[3].month)

\* The one medication load of the run, once it has been read.
MedsRead(kind) ==
  /\ loads = <<>> /\ Len(started) = 1
  /\ started[1].target = "meds" /\ started[1].kind = kind

MedCell(row, a, b) == IF TruthyStr(row[a]) THEN row[a] ELSE row[b]

MedRowDated(row) ==
  TruthyStr(MedCell(row, "date", "Date")) /\ ~isNaN(DateOf(MedCell(row, "date", "Date")))

\* The dose of a row: its first dose column that is there.
DoseCell(row) ==
  IF row["dose_mg"] # undefined THEN row["dose_mg"]
  ELSE IF row["DoseMg"] # undefined THEN row["DoseMg"] ELSE row["dose"]

\* "{dose}mg" behind a blank; nothing when the dose is absent or <= 0.
ClaimedDose(row) ==
  IF DoseCell(row) = undefined \/ ~NumLt(Num(0), parseFloatSafe(DoseCell(row))) THEN <<>>
  ELSE <<" ">> \o NumberToString(parseFloatSafe(DoseCell(row))) \o <<"m", "g">>

\* " - {ACTION}" iff the action is START or STOP, whatever its case.
ClaimedAction(row) ==
  LET a == toUpperCase(Trim(StringOrEmpty(MedCell(row, "action", "Action"))))
  IN  IF a \in {<<"S", "T", "A", "R", "T">>, <<"S", "T", "O", "P">>} THEN Sep \o a ELSE <<>>

ClaimedLabel(row) ==
  Trim(StringOrEmpty(MedCell(row, "medication", "Medication")))
    \o ClaimedDose(row) \o ClaimedAction(row)

\* The places of " - " in a line.
SepPlaces(line) == {p \in 1..(Len(line) - 2) : SubSeq(line, p, p + 2) = Sep}
FirstSep(line) == CHOOSE p \in SepPlaces(line) : \A o \in SepPlaces(line) : p <= o

\* The date and the label of a line: the text before the first " - " and
\* everything after it, without the blanks around them.
LineDate(line) == DateOf(Trim(SubSeq(Trim(line), 1, FirstSep(Trim(line)) - 1)))
LineLabel(line) == Trim(SubSeq(Trim(line), FirstSep(Trim(line)) + 3, Len(Trim(line))))
LineKept(line) == SepPlaces(Trim(line)) # {} /\ ~isNaN(LineDate(line))

\* C13: the label of a row of the medication table is "{medication}
\* {dose}mg", the dose left out when it is absent or <= 0, with " - {ACTION}"
\* behind it iff the action is START or STOP in any case; so the row
\* {2024-03-10, Sertraline, 50, start} has the label of the line
\* "2024-03-10 - Sertraline 50mg - START".
C13_TabularLabel ==
  MedsRead("csv") =>
    LET good == SelectSeq(started[1].content, MedRowDated)
    IN  /\ Len(meds) = Len(good)
        /\ {meds[n].label : n \in 1..Len(meds)} = {ClaimedLabel(good[j]) : j \in 1..Len(good)}
        /\ started[1].content = <<SertralineRow>> =>
             meds[1].label = LineLabel(SertralineLine)

\* The place of the j-th kept line in a stable ascending order by date.
LineRank(good, j) ==
  Cardinality({l \in 1..Len(good) :
                 \/ NumLt(LineDate(good[l]), LineDate(good[j]))
                 \/ l <= j /\ LineDate(good[l]) = LineDate(good[j])})

\* C14: the medication text parser splits each non-blank line at the first
\* " - ": the text before it is the date, everything after it (later
\* separators included) the label; a line whose prefix is no date is
\* dropped; the events are in ascending order of date, equal dates in line
\* order.
C14_LinesSplitAtFirst ==
  MedsRead("txt") =>
    LET good == SelectSeq(started[1].content, LineKept)
    IN  /\ Len(meds) = Len(good)
        /\ \A a, b \in 1..Len(meds) : a < b => NumLe(meds[a].date, meds[b].date)
        /\ \A j \in 1..Len(good) :
             meds[LineRank(good, j)] =
               [date |-> LineDate(good[j]), label |-> LineLabel(good[j])]

\* The scenario line and a line of an earlier day with two separators were
\* read, the later day first: the events are in date order and each label
\* holds what follows the first separator.
C14_Witness ==
  /\ MedsRead("txt") /\ Len(started[1].content) = 2
  /\ started[1].content[1] = SertralineLine
  /\ meds = <<[date |-> DateOf(EventDay), label |-> <<"A">> \o Sep \o <<"S", "T", "O", "P">>],
              [date |-> DateOf(ScenarioDay),
               label |-> Sertraline \o <<" ", "5", "0", "m", "g">> \o Sep
                           \o <<"S", "T", "A", "R", "T">>]>>

\* C15: a sleep input that is neither a table nor an archive fails loudly
\* with an "unrecognized input" condition: its load never completes as an
\* empty record set put in the place of the loaded records.
C15_UnrecognizedFailsLoudly ==
  lastLoad # <<>> => lastLoad[1].kind # "other"

\* The sleep loads that were started and whose read succeeds, in the order
\* they were started.
StartedSleep(l) == l.target = "sleep" /\ l.ok
SleepPending == \E n \in 1..Len(loads) : loads[n].target = "sleep"

\* Every load started so far suspends on a read: the fetch, and uploads of
\* tables and archives.
AllSuspending == \A n \in 1..Len(started) : started[n].kind # "other"

\* C16: once every asynchronous sleep load (the fetch of the default table
\* and the uploads, each suspending on its read) has completed, the loaded
\* records are the result of the sleep load that was started last: a load
\* started earlier never overwrites the result of one started later.
C16_LastStartedWins ==
  LET done == SelectSeq(started, StartedSleep)
  IN  (AllSuspending /\ ~SleepPending /\ done # <<>>) =>
        /\ lastLoad = <<done[Len(done)]>>
        /\ sleepRows = LoadResult(done[Len(done)])

RECURSIVE QueueSum(_)
QueueSum(xs) == IF xs = <<>> THEN Num(0) ELSE NumAdd(QueueSum(Tail(xs)), Head(xs))

Least(a, b) == IF a < b THEN a ELSE b

====
